---- MODULE Spec2Model ----
(***************************************************************************)
(* FAST ("Features from Accelerated Segment Test") corner detector,        *)
(* package fast of src/main.go: getCircleOffsets, isBrighter, isDarker,    *)
(* isTriviallyExcluded, isCorner and the FindCorners scan.                 *)
(***************************************************************************)
EXTENDS Integers, Sequences, FiniteSets

VARIABLES pixels, width, height, threshold,   \* arguments of FindCorners
          circleOffsets,                      \* getCircleOffsets(width), computed on entry
          i, j, corners,                      \* loop variables and result of FindCorners
          p, circlePixels,                    \* candidate intensity and circle sample
          verdict,                            \* last value returned by isCorner
          reads,                              \* buffer indices read by the last step
          prev,                               \* <<threshold, corners>> of the previous call
          pc

vars == <<pixels, width, height, threshold, circleOffsets, i, j, corners, p, circlePixels,
          verdict, reads, prev, pc>>

\* ---------------------------------------------------------------- bounds
MaxWidth == 11
MaxHeight == 8
MaxIntensity == 2

\* ------------------------------------------------------ program constants
CircleSize == 16
Radius == 3
MinCompass == 3
\* Variant: the arc is half the circle, 8 samples (y < 8).
ArcLengthShort == CircleSize \div 2
ArcLength == 9

CircleIdx == 0..(CircleSize - 1)

\* ------------------------------------------------------- pixel comparator
\* Variant: the threshold enters with the wrong sign.
isBrighterLoose(circlePixel, q, t) == circlePixel - q > 0 - t

isBrighter(circlePixel, q, t) == circlePixel - q > t

\* Variant: the comparison is turned round.
isDarkerSlip(circlePixel, q, t) == circlePixel - q < t

isDarker(circlePixel, q, t) == q - circlePixel > t

\* ----------------------------------------------------- fast rejection test
Count(b) == IF b THEN 1 ELSE 0

isTriviallyExcluded(cp, q, t) ==
    LET circleBottom == cp[8]
        circleLeft == cp[12]
        circleRight == cp[4]
        circleTop == cp[0]
        brighterCount == Count(isBrighter(circleTop, q, t))
                       + Count(isBrighter(circleRight, q, t))
                       + Count(isBrighter(circleBottom, q, t))
                       + Count(isBrighter(circleLeft, q, t))
        darkerCount == Count(isDarker(circleTop, q, t))
                     + Count(isDarker(circleRight, q, t))
                     + Count(isDarker(circleBottom, q, t))
                     + Count(isDarker(circleLeft, q, t))
    IN  IF brighterCount < MinCompass THEN darkerCount < MinCompass ELSE FALSE

\* ------------------------------------------------------------ segment test
\* The index of the y-th sample of the arc that starts at x: (x+y)&15.
ArcIndex(x, y) == (x + y) % CircleSize

\* The inner loop of isCorner from sample y on, with the flags as they stand;
\* yields <<brighter, darker>> as they are when the loop is left.
RECURSIVE InnerScan(_, _, _, _, _, _, _)
InnerScan(q, cp, t, x, y, brighter, darker) ==
    IF y >= ArcLength THEN <<brighter, darker>>
    ELSE LET circlePixel == cp[ArcIndex(x, y)]
             b1 == IF ~isBrighter(q, circlePixel, t) THEN FALSE ELSE brighter
         IN  IF ~isBrighter(q, circlePixel, t) /\ ~darker
             THEN <<b1, darker>>                             \* first break
             ELSE LET d1 == IF ~isDarker(q, circlePixel, t) THEN FALSE ELSE darker
                  IN  IF ~isDarker(q, circlePixel, t) /\ ~b1
                      THEN <<b1, d1>>                        \* second break
                      ELSE InnerScan(q, cp, t, x, y + 1, b1, d1)

\* Variant: only the darker flag is tested after the inner loop.
RECURSIVE SegmentLoopDarkerOnly(_, _, _, _)
SegmentLoopDarkerOnly(q, cp, t, x) ==
    IF x >= CircleSize THEN FALSE
    ELSE LET flags == InnerScan(q, cp, t, x, 0, TRUE, TRUE)
         IN  IF flags[2] THEN TRUE
             ELSE SegmentLoopDarkerOnly(q, cp, t, x + 1)

\* The outer loop of isCorner from start x on.
RECURSIVE SegmentLoop(_, _, _, _)
SegmentLoop(q, cp, t, x) ==
    IF x >= CircleSize THEN FALSE
    ELSE LET flags == InnerScan(q, cp, t, x, 0, TRUE, TRUE)
         IN  IF flags[1] \/ flags[2] THEN TRUE
             ELSE SegmentLoop(q, cp, t, x + 1)

isCorner(q, cp, t) ==
    IF isTriviallyExcluded(cp, q, t) THEN FALSE
    ELSE SegmentLoop(q, cp, t, 0)

\* ---------------------------------------------------------- circle geometry
\* Variant: the step from offset 5 to offset 6 goes right instead of left.
getCircleOffsetsSlip(w) ==
    LET c0 == (0 - w) - w - w
        c1 == c0 + 1
        c2 == c1 + w + 1
        c3 == c2 + w + 1
        c4 == c3 + w
        c5 == c4 + w
        c6 == c5 + w + 1
        c7 == c6 + w - 1
        c8 == c7 - 1
        c9 == c8 - 1
        c10 == c9 - w - 1
        c11 == c10 - w - 1
        c12 == c11 - w
        c13 == c12 - w
        c14 == c13 - w + 1
        c15 == c14 - w + 1
        s == <<c0, c1, c2, c3, c4, c5, c6, c7, c8, c9, c10, c11, c12, c13, c14, c15>>
    IN  [k \in CircleIdx |-> s[k + 1]]

getCircleOffsets(w) ==
    LET c0 == (0 - w) - w - w
        c1 == c0 + 1
        c2 == c1 + w + 1
        c3 == c2 + w + 1
        c4 == c3 + w
        c5 == c4 + w
        c6 == c5 + w - 1
        c7 == c6 + w - 1
        c8 == c7 - 1
        c9 == c8 - 1
        c10 == c9 - w - 1
        c11 == c10 - w - 1
        c12 == c11 - w
        c13 == c12 - w
        c14 == c13 - w + 1
        c15 == c14 - w + 1
        s == <<c0, c1, c2, c3, c4, c5, c6, c7, c8, c9, c10, c11, c12, c13, c14, c15>>
    IN  [k \in CircleIdx |-> s[k + 1]]

\* ------------------------------------------------------------- input scenes
\* The smallest grid with a non-empty interior: a radius-3 border on each side.
MinGrid == 2 * Radius + 1

Widths == 1..MaxWidth
Heights == (MinGrid - 1)..MaxHeight
Thresholds == 0..(MaxIntensity - 1)
Intensities == 0..MaxIntensity

\* Where the second dot lies from the first: up to 4 columns to its right on
\* the same row, or 4 columns to its left on the next row.
DotReach == Radius + 1
DotOffsets == ((1..DotReach) \X {0}) \cup {<<0 - DotReach, 1>>}

\* A grid of background bg with two dots painted over it (the second over the
\* first); a dot of the background's intensity leaves the grid unchanged.
DotScene(w, h, bg, d1, v1, d2, v2) ==
    [n \in 0..(w * h - 1) |->
        LET xy == <<n % w, n \div w>>
        IN  IF xy = d2 THEN v2 ELSE IF xy = d1 THEN v1 ELSE bg]

Positions(w, h) == (0..(w - 1)) \X (0..(h - 1))

\* Grids of w x h: up to two dots anywhere on background 0, and up to one
\* darker dot anywhere on background MaxIntensity.
DotScenes(w, h) ==
    {DotScene(w, h, 0, sc[1], sc[2], <<sc[1][1] + sc[3][1], sc[1][2] + sc[3][2]>>, sc[4]) :
        sc \in Positions(w, h) \X Intensities \X DotOffsets \X Intensities}
    \cup {DotScene(w, h, MaxIntensity, sc[1], sc[2], sc[1], sc[2]) :
            sc \in Positions(w, h) \X Intensities}

\* The 10x10 scene: intensity 100 with a 7x7 square of intensity 200 over
\* columns 2..8 and rows 2..8, scanned with threshold 20.
Square == [width |-> 10, height |-> 10, threshold |-> 20,
           low |-> 100, high |-> 200, from |-> 2, to |-> 8]

SquareScene ==
    [n \in 0..(Square.width * Square.height - 1) |->
        IF /\ n % Square.width \in Square.from..Square.to
           /\ n \div Square.width \in Square.from..Square.to
        THEN Square.high ELSE Square.low]

NoCircle == [k \in CircleIdx |-> 0]
NoPixels == [n \in {} |-> 0]

\* ------------------------------------------------------------------ scan
\* pixels is a Go map[int]int: a key that is absent reads as 0.
ReadPixel(px, n) == IF n \in DOMAIN px THEN px[n] ELSE 0

\* Variant: the loops start one pixel early.
FirstIndexLow == Radius - 1
\* Both loops start at 3.
FirstIndex == Radius

\* Variant: the loops run to extent-3 inclusive (<= for <).
LastBoundWide(extent) == extent - Radius + 1
\* Both loops run while the index is below extent-3.
LastBound(extent) == extent - Radius

\* Variant: two columns are skipped after a corner.
SkipShort == Radius - 1
\* j += 3 after a corner.
SkipAfterCorner == Radius

\* Entry of FindCorners(pixels, width, height, threshold).
Enter(px, w, h, t) ==
    /\ pixels' = px
    /\ width' = w
    /\ height' = h
    /\ threshold' = t
    /\ circleOffsets' = getCircleOffsets(w)
    /\ i' = FirstIndex
    /\ j' = 0
    /\ corners' = <<>>
    /\ p' = 0
    /\ circlePixels' = NoCircle
    /\ verdict' = FALSE
    /\ reads' = {}
    /\ pc' = "outer"

Init ==
    /\ \E sz \in (Widths \X Heights) \cup {<<Square.width, Square.height>>} :
         /\ width = sz[1]
         /\ height = sz[2]
         /\ \/ /\ sz \in Widths \X Heights
               /\ pixels \in DotScenes(sz[1], sz[2])
               /\ threshold = 0
            \/ /\ sz = <<Square.width, Square.height>>
               /\ pixels = SquareScene
               /\ threshold = Square.threshold
    /\ circleOffsets = getCircleOffsets(width)
    /\ i = FirstIndex
    /\ j = 0
    /\ corners = <<>>
    /\ p = 0
    /\ circlePixels = NoCircle
    /\ verdict = FALSE
    /\ reads = {}
    /\ prev = <<>>
    /\ pc = "outer"

\* for i := 3; i < height-3: the row is entered and j starts at 3.
EnterRow ==
    /\ pc = "outer"
    /\ i < LastBound(height)
    /\ j' = FirstIndex
    /\ pc' = "inner"
    /\ UNCHANGED <<pixels, width, height, threshold, circleOffsets, i, corners, p, circlePixels,
                   verdict, reads, prev>>

\* The body of the inner loop for the candidate (j, i), and j's increment.
ScanPixel ==
    /\ pc = "inner"
    /\ j < LastBound(width)
    /\ LET w == i * width + j
           cp == [k \in CircleIdx |-> ReadPixel(pixels, w + circleOffsets[k])]
           q == ReadPixel(pixels, w)
           found == isCorner(q, cp, threshold)
       IN  /\ p' = q
           /\ circlePixels' = cp
           /\ verdict' = found
           /\ reads' = {w} \cup {w + circleOffsets[k] : k \in CircleIdx}
           /\ corners' = IF found THEN corners \o <<j, i>> ELSE corners
           /\ j' = IF found THEN j + SkipAfterCorner + 1 ELSE j + 1
    /\ UNCHANGED <<pixels, width, height, threshold, circleOffsets, i, prev, pc>>

\* The inner loop ends (j >= width-3) and i is incremented.
EndRow ==
    /\ pc = "inner"
    /\ ~(j < LastBound(width))
    /\ i' = i + 1
    /\ pc' = "outer"
    /\ UNCHANGED <<pixels, width, height, threshold, circleOffsets, j, corners, p, circlePixels,
                   verdict, reads, prev>>

\* The outer loop ends (i >= height-3): return corners.
Return ==
    /\ pc = "outer"
    /\ ~(i < LastBound(height))
    /\ pc' = "done"
    /\ UNCHANGED <<pixels, width, height, threshold, circleOffsets, i, j, corners, p, circlePixels,
                   verdict, reads, prev>>

\* The caller calls FindCorners again on the same grid with the next threshold.
CallAgain ==
    /\ pc = "done"
    /\ threshold + 1 \in Thresholds
    /\ Enter(pixels, width, height, threshold + 1)
    /\ prev' = <<threshold, corners>>

Next == EnterRow \/ ScanPixel \/ EndRow \/ Return \/ CallAgain

Spec == Init /\ [][Next]_vars

\* ------------------------------------------- isCorner on its own (SpecCorner)
\* Circle samples: every sample 0 or MaxIntensity, or three arcs of any
\* intensities (samples 0..a-1, a..b-1 and b..15 of the circle turned by r).
ArcCircle(r, a, b, v) ==
    [k \in CircleIdx |->
        LET n == (k + r) % CircleSize
        IN  IF n < a THEN v[1] ELSE IF n < b THEN v[2] ELSE v[3]]

CircleInputs ==
    [CircleIdx -> {0, MaxIntensity}]
    \cup {ArcCircle(c[1], c[2], c[3], c[4]) :
            c \in {d \in CircleIdx \X CircleIdx \X (0..CircleSize)
                         \X (Intensities \X Intensities \X Intensities) : d[2] <= d[3]}}

InitCorner ==
    /\ pixels = NoPixels
    /\ width = 0
    /\ height = 0
    /\ circleOffsets = NoCircle
    /\ threshold \in Thresholds
    /\ i = 0
    /\ j = 0
    /\ corners = <<>>
    /\ p \in Intensities
    /\ circlePixels \in CircleInputs
    /\ verdict = FALSE
    /\ reads = {}
    /\ prev = <<>>
    /\ pc = "check"

CheckCorner ==
    /\ pc = "check"
    /\ verdict' = isCorner(p, circlePixels, threshold)
    /\ pc' = "checked"
    /\ UNCHANGED <<pixels, width, height, threshold, circleOffsets, i, j, corners, p, circlePixels,
                   reads, prev>>

NextCorner == CheckCorner

SpecCorner == InitCorner /\ [][NextCorner]_vars

\* ======================================================================
\* Claims
\* ======================================================================

\* The clockwise radius-3 circle, (dx, dy) for k = 0..15 (entry k+1).
Layout ==
    << <<0, -3>>, <<1, -3>>, <<2, -2>>, <<3, -1>>, <<3, 0>>, <<3, 1>>, <<2, 2>>, <<1, 3>>,
       <<0, 3>>, <<-1, 3>>, <<-2, 2>>, <<-3, 1>>, <<-3, 0>>, <<-3, -1>>, <<-2, -2>>,
       <<-1, -3>> >>

\* Some 9 circularly contiguous samples all darker, or all brighter, than q by
\* more than t.
HasArc(q, cp, t) ==
    \E x \in 0..15 :
        \/ \A y \in 0..8 : q - cp[(x + y) % 16] > t
        \/ \A y \in 0..8 : cp[(x + y) % 16] - q > t

\* The pairs (x, y) of the list returned so far.
CornerPairs == {<<corners[2 * k - 1], corners[2 * k]>> : k \in 1..(Len(corners) \div 2)}

\* The pixel (c, r) of the grid and its 16 circle samples, by the layout.
PixelAt(c, r) == pixels[r * width + c]
SampleAt(c, r) == [k \in 0..15 |-> pixels[(r + Layout[k + 1][2]) * width + c + Layout[k + 1][1]]]
Accepted(c, r) == isCorner(PixelAt(c, r), SampleAt(c, r), threshold)
InteriorCols == 3..(width - 4)
InteriorRows == 3..(height - 4)

\* C1: isCorner (rejection first) returns the verdict of the 16-start /
\* 9-sample segment loop run without the rejection step.
C1_RejectionEquivalence ==
    pc = "checked" => (verdict <=> SegmentLoop(p, circlePixels, threshold, 0))

\* C2: every reported corner (x, y) has 3 <= x <= width-4 and
\* 3 <= y <= height-4, and a grid narrower or lower than 7 yields no corner.
C2_BorderExclusion ==
    /\ \A xy \in CornerPairs :
         /\ 3 <= xy[1] /\ xy[1] <= width - 4
         /\ 3 <= xy[2] /\ xy[2] <= height - 4
    /\ (width < 7 \/ height < 7) => corners = <<>>

\* A finished scan that reported the last interior pixel of the grid.
C2_Witness ==
    /\ pc = "done"
    /\ <<width - 4, height - 4>> \in CornerPairs

\* C3: on the same grid the scan with a higher threshold returns at most as
\* many corners as the scan with the lower threshold (column skip included).
C3_ThresholdMonotone ==
    (pc = "done" /\ prev # <<>>) =>
        /\ prev[1] < threshold
        /\ Len(corners) \div 2 <= Len(prev[2]) \div 2

\* The higher threshold drops a corner and reports, in its place, one the
\* lower threshold's scan had skipped.
C3_Witness ==
    /\ pc = "done"
    /\ prev # <<>>
    /\ corners # <<>>
    /\ Len(corners) = Len(prev[2])
    /\ corners # prev[2]

\* Pixel n0 is an interior pixel of a grid of at least 7x7 that exceeds the
\* intensity of every other pixel, all equal, by more than threshold.
SingleBrightPoint(n0) ==
    /\ width >= 7 /\ height >= 7
    /\ n0 % width \in InteriorCols
    /\ n0 \div width \in InteriorRows
    /\ \A m \in DOMAIN pixels \ {n0} :
         /\ pixels[m] = pixels[IF n0 = 0 THEN 1 ELSE 0]
         /\ pixels[n0] - pixels[m] > threshold

\* C4 as stated: the single bright point is classified non-corner and is not
\* in the returned list.
C4_SingleBrightPointRejected ==
    pc = "done" =>
        \A n0 \in DOMAIN pixels :
            SingleBrightPoint(n0) =>
                /\ ~Accepted(n0 % width, n0 \div width)
                /\ <<n0 % width, n0 \div width>> \notin CornerPairs

\* C4 as amended: the single bright point is classified a corner (all 16
\* circle samples are darker than it) and is the one corner returned.
C4_SingleBrightPointAccepted ==
    pc = "done" =>
        \A n0 \in DOMAIN pixels :
            SingleBrightPoint(n0) =>
                /\ Accepted(n0 % width, n0 \div width)
                /\ corners = <<n0 % width, n0 \div width>>

\* A finished scan of a grid with a single bright point off the first column
\* and row of the interior.
C4_Witness ==
    /\ pc = "done"
    /\ \E n0 \in DOMAIN pixels :
         /\ SingleBrightPoint(n0)
         /\ n0 % width > 3
         /\ n0 \div width > 3

\* C5: the 10x10 grid of intensity 100 with the 7x7 square of intensity 200
\* over columns and rows 2..8 yields at least one corner at threshold 20.
C5_SquareHasCorner ==
    (pc = "done" /\ width = 10 /\ height = 10 /\ threshold = 20 /\ pixels = SquareScene)
        => corners # <<>>

\* C6: the returned list is in row-major order, and an interior pixel is in
\* it iff isCorner accepts it and no reported corner lies 1..3 columns to its
\* left on its row; so reported corners of a row are at least 4 columns apart.
C6_GreedySelection ==
    pc = "done" =>
        /\ \A k \in 1..(Len(corners) \div 2 - 1) :
             \/ corners[2 * k] < corners[2 * k + 2]
             \/ /\ corners[2 * k] = corners[2 * k + 2]
                /\ corners[2 * k - 1] + 4 <= corners[2 * k + 1]
        /\ Len(corners) % 2 = 0
        /\ CornerPairs \subseteq InteriorCols \X InteriorRows
        /\ \A c \in InteriorCols, r \in InteriorRows :
             <<c, r>> \in CornerPairs <=>
                 /\ Accepted(c, r)
                 /\ \A d \in 1..3 : <<c - d, r>> \notin CornerPairs

\* A finished scan that skipped a pixel isCorner accepts, reported the pixel
\* 4 columns right of a corner, or reported the first pixel of the row after
\* a corner whose skip ran past the end of its row.
C6_Witness ==
    /\ pc = "done"
    /\ \E xy \in CornerPairs :
         /\ xy[1] + 1 \in InteriorCols
         /\ Accepted(xy[1] + 1, xy[2])
         /\ <<xy[1] + 1, xy[2]>> \notin CornerPairs

\* C7: on a grid of at least 7x7 every index a step of the scan reads lies in
\* [0, width*height).
C7_ReadsInBounds ==
    (width >= 7 /\ height >= 7 /\ DOMAIN pixels = 0..(width * height - 1)) =>
        \A n \in reads : 0 <= n /\ n < width * height

\* The step right after a column skip: the pixel 4 columns right of the last
\* corner was read and rejected.
C7_Witness ==
    /\ pc = "inner"
    /\ corners # <<>>
    /\ reads # {}
    /\ ~verdict
    /\ i = corners[Len(corners)]
    /\ j = corners[Len(corners) - 1] + 5

\* C8: offset k is dy_k*width + dx_k for the clockwise radius-3 layout, and
\* offset k+8 is the negation of offset k.
C8_CircleGeometry ==
    pc \in {"outer", "inner", "done"} =>
        /\ DOMAIN circleOffsets = 0..15
        /\ \A k \in 0..15 : circleOffsets[k] = Layout[k + 1][2] * width + Layout[k + 1][1]
        /\ \A k \in 0..7 : circleOffsets[k + 8] = 0 - circleOffsets[k]
        /\ circleOffsets[0] = 0 - 3 * width
        /\ circleOffsets[4] = 3
        /\ circleOffsets[8] = 3 * width
        /\ circleOffsets[12] = 0 - 3

\* A step of the scan of the widest grid has gathered its samples through the
\* offsets.
C8_Witness ==
    /\ pc = "inner"
    /\ width = MaxWidth
    /\ reads = {(i + Layout[k][2]) * width + (j - 1) + Layout[k][1] : k \in 1..16}
                 \cup {i * width + j - 1}

\* The grid is of one intensity.
Uniform == \A n \in DOMAIN pixels : pixels[n] = pixels[0]

\* C9: a grid of one intensity yields no corner at any positive threshold.
C9_UniformImage ==
    (threshold > 0 /\ Uniform) => corners = <<>>

\* A finished scan, with a positive threshold, of a uniform grid with a
\* non-empty interior.
C9_Witness ==
    /\ pc = "done"
    /\ Uniform
    /\ threshold > 0
    /\ width > 7 /\ height > 7
    /\ reads # {}

\* C10: when the rejection test does not exclude the candidate, isCorner
\* returns true iff some 9 circularly contiguous samples (wrapping from 15 to
\* 0 included) all differ from p by more than threshold in one direction.
C10_SegmentLoop ==
    (pc = "checked" /\ ~isTriviallyExcluded(circlePixels, p, threshold)) =>
        (verdict <=> HasArc(p, circlePixels, threshold))

\* A candidate accepted on an arc that wraps from sample 15 to sample 0, no
\* sample outside the arc differing from p by more than threshold.
C10_Witness ==
    /\ pc = "checked"
    /\ verdict
    /\ \A k \in 0..15 :
         (circlePixels[k] - p > threshold) <=> (k >= 12 \/ k <= 4)

====
